---- MODULE Spec2Model ----
(***************************************************************************)
(* vscode-forester: the external-process query (queryForest), the command  *)
(* executor (command / forester.new), the completion context matcher       *)
(* (provideCompletionItems) and the completion synthesizer (suggest).      *)
(***************************************************************************)
EXTENDS Integers, Sequences, FiniteSets, TLC

VARIABLES
  pc,            \* queryForest: "start", "awaiting", "returned", "thrown"
  proc,          \* the spawned child: "none", "nospawn", "running", "exited"
  exitStatus,    \* <<code, signal>> of the child once it has exited
  killSent,      \* forester.kill() delivered SIGTERM to a live child
  timeoutToken,  \* "unset", "armed", "fired", "cleared"
  settled,       \* the awaited promise: <<>> or <<[success, data]>>
  stdout,        \* text accumulated from forester.stdout
  stderr,        \* text accumulated from forester.stderr
  chunks,        \* number of data events delivered so far
  listeners,     \* once-listeners still registered on the child
  messages,      \* messages shown through vscode.window, in order
  forest,        \* what queryForest resolved to: <<>> or <<Forest>>
  winner,        \* history: the event whose resolve() settled the promise
  norm,          \* normalisation harness: [phase, data, out]
  mt,            \* matcher harness: [phase, text, res]
  sg,            \* suggest harness: [phase, trees, showID, range, items]
  cmd            \* command harness: [phase, outcome, result, shown, opened]

vars == <<pc, proc, exitStatus, killSent, timeoutToken, settled, stdout, stderr,
          chunks, listeners, messages, forest, winner, norm, mt, sg, cmd>>

queryVars == <<pc, proc, exitStatus, killSent, timeoutToken, settled, stdout,
               stderr, chunks, listeners, messages, forest, winner>>

-----------------------------------------------------------------------------
(* Bounds *)

MaxChunks == 2
MaxKeys == 2
MaxFrags == 4
MaxTrees == 2

-----------------------------------------------------------------------------
(* JavaScript values *)

\* A nullable value is <<>> (null) or <<v>>.
Null == <<>>
Some(v) == <<v>>

JNull == [kind |-> "null"]
JBoolean(b) == [kind |-> "boolean", bool |-> b]
JString(s) == [kind |-> "string", str |-> s]
JArray(items) == [kind |-> "array", items |-> items]
\* An object keeps its own keys in iteration order.
JObject(keys, get) == [kind |-> "object", keys |-> keys, get |-> get]

EmptyObject == JObject(<<>>, <<>>)
Obj1(k, v) == JObject(<<k>>, [x \in {k} |-> v])
Obj2(k1, v1, k2, v2) ==
  JObject(<<k1, k2>>, [x \in {k1, k2} |-> IF x = k1 THEN v1 ELSE v2])

\* Template-literal rendering of a nullable number or string.
TemplateNum(c) == IF c = Null THEN "null" ELSE ToString(c[1])
TemplateStr(s) == IF s = Null THEN "null" ELSE s[1]

\* s contains t as a substring.
Contains(s, t) ==
  \E i \in 1..(Len(s) - Len(t) + 1) : SubSeq(s, i, i + Len(t) - 1) = t

StartsWith(s, t) == Len(s) >= Len(t) /\ SubSeq(s, 1, Len(t)) = t

-----------------------------------------------------------------------------
(* The child process and what it writes *)

\* What one 'data' event of forester.stdout may carry.
StdoutChunks ==
  { "[]",
    "[{\"uri\":\"t1\",\"title\":\"T\"}]",
    "{\"t1\":{\"title\":\"T\"}}",
    "null",
    "true",
    "oops" }

StderrChunks == { "warn" }

\* <<code, signal>> as the 'close' event reports them.
ExitStatuses ==
  { <<Some(0), Null>>, <<Some(2), Null>>, <<Null, Some("SIGTERM")>> }

\* errno of a failed spawn (ENOENT), reported as the exit code.
SpawnFailStatus == <<Some(-2), Null>>
SpawnErrorMessage == "spawn forester ENOENT"

\* JSON.parse on the texts the chunks above can add up to: <<>> is a
\* SyntaxError. Two complete JSON texts in a row are never a JSON text.
JSONParse(s) ==
  CASE s = "[]" -> Some(JArray(<<>>))
    [] s = "[{\"uri\":\"t1\",\"title\":\"T\"}]" ->
         Some(JArray(<< Obj2("uri", JString("t1"), "title", JString("T")) >>))
    [] s = "{\"t1\":{\"title\":\"T\"}}" ->
         Some(Obj1("t1", Obj1("title", JString("T"))))
    [] s = "null" -> Some(JNull)
    [] s = "true" -> Some(JBoolean(TRUE))
    [] OTHER -> <<>>

-----------------------------------------------------------------------------
(* queryForest *)

Success(d) == [success |-> TRUE, data |-> d]
Failure(m) == [success |-> FALSE, text |-> m]

\* A resolve() that lets a later call overwrite the outcome.
ResolveLastWins(cur, v) == <<v>>

\* resolve() of a promise: only the first call settles it.
Resolve(cur, v) == IF cur = <<>> THEN <<v>> ELSE cur

TimeoutOutcome == Failure("Forester timed out after 30s")

\* The 'close' listener with the exit test narrowed to "signalled and
\* non-zero".
CloseOutcomeAnd(code, signal, out) ==
  IF signal # Null /\ code # Some(0)
  THEN Failure("Forester: process exited with code " \o TemplateNum(code)
               \o " and signal " \o TemplateStr(signal) \o ".")
  ELSE IF JSONParse(out) # <<>>
       THEN Success(JSONParse(out)[1])
       ELSE Failure("Forester didn't return a valid JSON response:\n" \o out)

\* The 'close' listener.
CloseOutcome(code, signal, out) ==
  IF signal # Null \/ code # Some(0)
  THEN Failure("Forester: process exited with code " \o TemplateNum(code)
               \o " and signal " \o TemplateStr(signal) \o ".")
  ELSE IF JSONParse(out) # <<>>
       THEN Success(JSONParse(out)[1])
       ELSE Failure("Forester didn't return a valid JSON response:\n" \o out)

\* Array.isArray
IsArray(v) == v.kind = "array"

\* Object.entries(v) throws a TypeError on null.
ObjectEntriesThrows(v) == v.kind = "null"

\* Own enumerable string-keyed properties, in iteration order.
OwnKeys(v) == IF v.kind = "object" THEN v.keys ELSE <<>>
OwnGet(v, k) == v.get[k]

SeqRange(s) == { s[i] : i \in DOMAIN s }
RemoveKey(s, k) == SelectSeq(s, LAMBDA x : x # k)

\* ({ uri: id, ...entry })
SpreadUri(id, entry) ==
  LET ks == <<"uri">> \o RemoveKey(OwnKeys(entry), "uri")
  IN JObject(ks,
       [k \in SeqRange(ks) |->
          IF k \in SeqRange(OwnKeys(entry)) THEN OwnGet(entry, k)
          ELSE JString(id)])

\* Object.entries(data).map(([id, entry]) => ({ uri: id, ...entry }))
OldFormat(data) ==
  [i \in 1..Len(OwnKeys(data)) |->
     SpreadUri(OwnKeys(data)[i], OwnGet(data, OwnKeys(data)[i]))]

\* The success branch of queryForest.
Normalize(data) == IF IsArray(data) THEN data.items ELSE OldFormat(data)

\* The failure branch's message.
ErrorMessage(text, out, err) ==
  text \o (IF out # "" THEN "\n\n" \o out ELSE "")
       \o (IF err # "" THEN "\n\n" \o err ELSE "")

Warning(t) == [kind |-> "warning", text |-> t]
Error(t) == [kind |-> "error", text |-> t]

\* The continuation after the await is a microtask: once the promise is
\* settled it runs before any further event-loop callback.
MacrotaskMayRun == ~(settled # <<>> /\ pc = "awaiting")

\* forester.kill(): SIGTERM is sent to a child that is still alive.
Kill == killSent' = (killSent \/ proc = "running")

\* getRoot() throws when no workspace folder is open.
GetRootThrows(folders) == folders = 0

\* Lines 30-49 up to the await: getRoot, spawn, listeners, timer.
StartQuery ==
  /\ pc = "start"
  /\ \E folders \in 0..1 :
       IF GetRootThrows(folders)
       THEN /\ pc' = "thrown"
            /\ UNCHANGED <<proc, timeoutToken, listeners>>
       ELSE /\ pc' = "awaiting"
            /\ proc' \in {"running", "nospawn"}
            /\ timeoutToken' = "armed"
            /\ listeners' = {"error", "close"}
  /\ UNCHANGED <<exitStatus, killSent, settled, stdout, stderr, chunks,
                 messages, forest, winner>>

StdoutData ==
  /\ proc \in {"running", "exited"} /\ "close" \in listeners
  /\ MacrotaskMayRun
  /\ chunks < MaxChunks
  /\ \E c \in StdoutChunks : stdout' = stdout \o c
  /\ chunks' = chunks + 1
  /\ UNCHANGED <<pc, proc, exitStatus, killSent, timeoutToken, settled, stderr,
                 listeners, messages, forest, winner>>

StderrData ==
  /\ proc \in {"running", "exited"} /\ "close" \in listeners
  /\ MacrotaskMayRun
  /\ chunks < MaxChunks
  /\ \E c \in StderrChunks : stderr' = stderr \o c
  /\ chunks' = chunks + 1
  /\ UNCHANGED <<pc, proc, exitStatus, killSent, timeoutToken, settled, stdout,
                 listeners, messages, forest, winner>>

\* The child terminates (the operating system's step, not a callback).
ProcessExit ==
  /\ proc = "running"
  /\ proc' = "exited"
  /\ exitStatus' \in ExitStatuses
  /\ UNCHANGED <<pc, killSent, timeoutToken, settled, stdout, stderr, chunks,
                 listeners, messages, forest, winner>>

\* setTimeout callback, lines 46-49.
TimerFires ==
  /\ timeoutToken = "armed"
  /\ MacrotaskMayRun
  /\ timeoutToken' = "fired"
  /\ settled' = Resolve(settled, TimeoutOutcome)
  /\ winner' = IF settled = <<>> THEN "timeout" ELSE winner
  /\ Kill
  /\ UNCHANGED <<pc, proc, exitStatus, stdout, stderr, chunks, listeners,
                 messages, forest>>

\* 'error' listener, lines 51-54: the spawn failed.
EmitError ==
  /\ proc = "nospawn" /\ "error" \in listeners
  /\ MacrotaskMayRun
  /\ listeners' = listeners \ {"error"}
  /\ messages' = Append(messages,
                   Warning("Forester: Critical error - " \o SpawnErrorMessage))
  /\ settled' = Resolve(settled, Failure(SpawnErrorMessage))
  /\ winner' = IF settled = <<>> THEN "error" ELSE winner
  /\ UNCHANGED <<pc, proc, exitStatus, killSent, timeoutToken, stdout, stderr,
                 chunks, forest>>

\* 'close' listener, lines 56-67: after the exit, or after a failed spawn's
\* 'error'.
EmitClose ==
  /\ "close" \in listeners
  /\ \/ proc = "exited"
     \/ proc = "nospawn" /\ "error" \notin listeners
  /\ MacrotaskMayRun
  /\ listeners' = listeners \ {"close"}
  /\ LET st == IF proc = "exited" THEN exitStatus ELSE SpawnFailStatus
     IN settled' = Resolve(settled, CloseOutcome(st[1], st[2], stdout))
  /\ winner' = IF settled = <<>> THEN "close" ELSE winner
  /\ UNCHANGED <<pc, proc, exitStatus, killSent, timeoutToken, stdout, stderr,
                 chunks, messages, forest>>

\* clearTimeout(timeoutToken)
ClearTimeout(t) == IF t = "armed" THEN "cleared" ELSE t

\* Lines 70-86: the continuation after the await.
Resume ==
  /\ pc = "awaiting" /\ settled # <<>>
  /\ timeoutToken' = ClearTimeout(timeoutToken)
  /\ LET r == settled[1] IN
       IF r.success
       THEN /\ messages' = messages
            /\ IF ~IsArray(r.data) /\ ObjectEntriesThrows(r.data)
               THEN pc' = "thrown" /\ forest' = forest
               ELSE pc' = "returned" /\ forest' = Some(Normalize(r.data))
       ELSE /\ messages' = Append(messages,
                 Error("Forester query failed: "
                       \o ErrorMessage(r.text, stdout, stderr)))
            /\ pc' = "returned"
            /\ forest' = Some(<<>>)
  /\ UNCHANGED <<proc, exitStatus, killSent, settled, stdout, stderr, chunks,
                 listeners, winner>>


Off == [phase |-> "off"]

QueryInit ==
  /\ pc = "start"
  /\ proc = "none"
  /\ exitStatus = <<Null, Null>>
  /\ killSent = FALSE
  /\ timeoutToken = "unset"
  /\ settled = <<>>
  /\ stdout = ""
  /\ stderr = ""
  /\ chunks = 0
  /\ listeners = {}
  /\ messages = <<>>
  /\ forest = <<>>
  /\ winner = "none"

InitQuery == QueryInit /\ norm = Off /\ mt = Off /\ sg = Off /\ cmd = Off

NextQuery ==
  \/ StartQuery /\ UNCHANGED <<norm, mt, sg, cmd>>
  \/ StdoutData /\ UNCHANGED <<norm, mt, sg, cmd>>
  \/ StderrData /\ UNCHANGED <<norm, mt, sg, cmd>>
  \/ ProcessExit /\ UNCHANGED <<norm, mt, sg, cmd>>
  \/ TimerFires /\ UNCHANGED <<norm, mt, sg, cmd>>
  \/ EmitError /\ UNCHANGED <<norm, mt, sg, cmd>>
  \/ EmitClose /\ UNCHANGED <<norm, mt, sg, cmd>>
  \/ Resume /\ UNCHANGED <<norm, mt, sg, cmd>>

SpecQuery == InitQuery /\ [][NextQuery]_vars

-----------------------------------------------------------------------------
(* Properties of queryForest *)

QueryFailedMessages ==
  { i \in DOMAIN messages :
      /\ messages[i].kind = "error"
      /\ StartsWith(messages[i].text, "Forester query failed: ") }

Returned == pc = "returned"

\* The timer fired first, while the child was still alive.
TimedOutAlive == winner = "timeout" /\ killSent

\* C1: when the timer fires on a child that has not exited, the query
\* returns the empty forest with a diagnostic containing "timed out after
\* 30s", and once it has returned the child is no longer running.
C1_TimeoutEndsProcess ==
  (Returned /\ TimedOutAlive) =>
     /\ forest = Some(<<>>)
     /\ \E i \in QueryFailedMessages :
          Contains(messages[i].text, "timed out after 30s")
     /\ proc # "running"

\* C2: whatever the spawned process does, queryForest resolves to a forest
\* and never throws.
C2_NeverThrows == proc # "none" => pc # "thrown"

\* C7: a close with a non-zero code or a signal, arriving first, gives the
\* empty forest and the message "process exited with code <code> and signal
\* <signal>" followed by the captured stdout and stderr; stdout is not
\* parsed.
ClosedBadly ==
  /\ winner = "close" /\ proc = "exited"
  /\ (exitStatus[1] # Some(0) \/ exitStatus[2] # Null)

C7_ExitFailure ==
  (Returned /\ ClosedBadly) =>
     /\ ~settled[1].success
     /\ forest = Some(<<>>)
     /\ Len(messages) = 1
     /\ messages[1].kind = "error"
     /\ messages[1].text =
          "Forester query failed: Forester: process exited with code "
          \o (IF exitStatus[1] = Null THEN "null" ELSE ToString(exitStatus[1][1]))
          \o " and signal "
          \o (IF exitStatus[2] = Null THEN "null" ELSE exitStatus[2][1])
          \o "."
          \o (IF stdout = "" THEN "" ELSE "\n\n" \o stdout)
          \o (IF stderr = "" THEN "" ELSE "\n\n" \o stderr)

\* C7 witness: exit code 2 with stdout that would have parsed as JSON.
C7_Witness ==
  /\ Returned /\ ClosedBadly
  /\ exitStatus = <<Some(2), Null>>
  /\ stdout = "[]" /\ stderr = "warn"

\* C9: when queryForest returns, the timer has been cleared and the child
\* has been terminated.
C9_CleanupOnReturn ==
  Returned =>
     /\ timeoutToken \in {"cleared", "fired"}
     /\ proc # "running"

\* C10: the promise settles once, on the first of timer / 'error' /
\* 'close'; later events change neither the outcome nor the returned
\* forest; a failed query shows exactly one "Forester query failed" message
\* and a successful one none.
FirstOutcome ==
  CASE winner = "timeout" -> settled = Some(TimeoutOutcome)
    [] winner = "error" -> settled = Some(Failure(SpawnErrorMessage))
    [] winner = "close" ->
         /\ proc = "exited" /\ "close" \notin listeners
         /\ settled = Some(CloseOutcome(exitStatus[1], exitStatus[2], stdout))
    [] OTHER -> settled = <<>>

C10_SingleTerminalTransition ==
  /\ [](FirstOutcome)
  /\ [][settled # <<>> => settled' = settled]_vars
  /\ [][Returned => (Returned' /\ forest' = forest
                      /\ QueryFailedMessages' = QueryFailedMessages)]_vars
  /\ [](Returned =>
          /\ settled[1].success =>
               /\ QueryFailedMessages = {}
               /\ forest = Some(Normalize(settled[1].data))
          /\ ~settled[1].success =>
               (Cardinality(QueryFailedMessages) = 1 /\ forest = Some(<<>>)))

\* C10 witness: the 'close' that follows the timeout's kill arrived after
\* the query had returned.
C10_Witness ==
  /\ Returned /\ TimedOutAlive
  /\ proc = "exited" /\ "close" \notin listeners

-----------------------------------------------------------------------------
(* Response normalisation on parsed responses (server.ts lines 72-77) *)

\* Sequences over S of length at most n.
SeqsUpTo(S, n) == UNION { [1..k -> S] : k \in 0..n }

IsInjective(q) == \A i, j \in DOMAIN q : q[i] = q[j] => i = j

ResponseKeys == {"t1", "t2", "uri"}

\* What a key of an old-format response may map to.
EntryValues ==
  { Obj1("title", JString("T")),
    Obj2("title", JNull, "taxon", JString("x")),
    Obj2("title", JString("T"), "uri", JString("other")),
    EmptyObject,
    JNull }

\* Object-shaped responses: distinct keys in iteration order.
ObjectResponses ==
  UNION { { JObject(ks, gs) : gs \in [SeqRange(ks) -> EntryValues] } :
          ks \in { q \in SeqsUpTo(ResponseKeys, MaxKeys) : IsInjective(q) } }

ArrayResponses ==
  { JArray(items) :
      items \in SeqsUpTo({ Obj1("uri", JString("t1")), JNull }, MaxKeys) }

InitNormalize ==
  /\ QueryInit /\ mt = Off /\ sg = Off /\ cmd = Off
  /\ \E d \in ObjectResponses \cup ArrayResponses :
       norm = [phase |-> "parsed", data |-> d, out |-> <<>>]

\* if (success) { ... } of queryForest on the parsed response.
NormalizeResponse ==
  /\ norm.phase = "parsed"
  /\ norm' = [norm EXCEPT !.phase = "returned", !.out = Normalize(norm.data)]
  /\ UNCHANGED <<queryVars, mt, sg, cmd>>

NextNormalize == NormalizeResponse

SpecNormalize == InitNormalize /\ [][NextNormalize]_vars

\* C3: an object-shaped response is normalised to one entry per key, in
\* the object's key order, and each entry's uri is its key.
C3_OneEntryPerKey ==
  (norm.phase = "returned" /\ ~IsArray(norm.data)) =>
     /\ Len(norm.out) = Len(norm.data.keys)
     /\ \A i \in DOMAIN norm.out :
          norm.out[i].get["uri"] = JString(norm.data.keys[i])

-----------------------------------------------------------------------------
(* The context matcher (provideCompletionItems, lines 76-99) *)

Char(s, i) == SubSeq(s, i, i)

\* The four command openers of the first alternative of tagPattern.
Commands == << "\\transclude{", "\\import{", "\\export{", "\\ref{" >>

\* [^c]*$ from position i on.
NoneToEnd(s, i, c) == \A j \in i..Len(s) : Char(s, j) # c

LiteralAt(s, i, lit) == SubSeq(s, i, i + Len(lit) - 1) = lit

\* Group spans are <<start, end>> offsets (0-based, end exclusive); <<>> is
\* a group that did not take part.
Span(from, s) == << from - 1, Len(s) >>

\* (?:\\transclude{|\\import{|\\export{|\\ref{)([^}]*)$ tried at position i
RECURSIVE Alt1From(_, _, _)
Alt1From(s, i, k) ==
  IF k > Len(Commands) THEN <<>>
  ELSE IF /\ i + Len(Commands[k]) - 1 <= Len(s)
          /\ LiteralAt(s, i, Commands[k])
          /\ NoneToEnd(s, i + Len(Commands[k]), "}")
       THEN Span(i + Len(Commands[k]), s)
       ELSE Alt1From(s, i, k + 1)

Alt1(s, i) == Alt1From(s, i, 1)

\* \[[^\[]*\]\(([^\)]*)$ tried at position i: the greedy [^\[]* gives back
\* characters until "](" and a rest without ")" follow; j is where "]"
\* is tried.
RECURSIVE Alt2Back(_, _, _)
Alt2Back(s, i, j) ==
  IF j <= i THEN <<>>
  ELSE IF /\ j + 1 <= Len(s)
          /\ Char(s, j) = "]" /\ Char(s, j + 1) = "("
          /\ NoneToEnd(s, j + 2, ")")
       THEN Span(j + 2, s)
       ELSE Alt2Back(s, i, j - 1)

\* How far [^\[]* can run from position i.
RECURSIVE RunEnd(_, _)
RunEnd(s, i) ==
  IF i <= Len(s) /\ Char(s, i) # "[" THEN RunEnd(s, i + 1) ELSE i

Alt2(s, i) ==
  IF Char(s, i) = "[" THEN Alt2Back(s, i, RunEnd(s, i + 1)) ELSE <<>>

\* \[\[(.*)$ tried at position i: the group no longer excludes "]".
Alt3AnyText(s, i) ==
  IF i + 1 <= Len(s) /\ Char(s, i) = "[" /\ Char(s, i + 1) = "["
  THEN Span(i + 2, s)
  ELSE <<>>

\* \[\[([^\]]*)$ tried at position i
Alt3(s, i) ==
  IF /\ i + 1 <= Len(s)
     /\ Char(s, i) = "[" /\ Char(s, i + 1) = "["
     /\ NoneToEnd(s, i + 2, "]")
  THEN Span(i + 2, s)
  ELSE <<>>

NoGroup == <<>>
MatchOf(g1, g2, g3) == << [indices |-> << g1, g2, g3 >>] >>

\* tagPattern.exec(text): the leftmost position where an alternative
\* matches, the alternatives tried in order there. <<>> is null.
RECURSIVE ExecFrom(_, _)
ExecFrom(s, i) ==
  IF i > Len(s) THEN <<>>
  ELSE IF Alt1(s, i) # <<>> THEN MatchOf(Alt1(s, i), NoGroup, NoGroup)
  ELSE IF Alt2(s, i) # <<>> THEN MatchOf(NoGroup, Alt2(s, i), NoGroup)
  ELSE IF Alt3(s, i) # <<>> THEN MatchOf(NoGroup, NoGroup, Alt3(s, i))
  ELSE ExecFrom(s, i + 1)

\* An exec that prefers the first listed alternative over the leftmost
\* position.
RECURSIVE FirstAt(_, _, _)
FirstAt(s, i, a) ==
  IF i > Len(s) THEN <<>>
  ELSE LET g == CASE a = 1 -> Alt1(s, i) [] a = 2 -> Alt2(s, i)
                  [] OTHER -> Alt3(s, i)
       IN IF g # <<>> THEN g ELSE FirstAt(s, i + 1, a)

ExecByPriority(s) ==
  IF FirstAt(s, 1, 1) # <<>> THEN MatchOf(FirstAt(s, 1, 1), NoGroup, NoGroup)
  ELSE IF FirstAt(s, 1, 2) # <<>>
       THEN MatchOf(NoGroup, FirstAt(s, 1, 2), NoGroup)
  ELSE IF FirstAt(s, 1, 3) # <<>>
       THEN MatchOf(NoGroup, NoGroup, FirstAt(s, 1, 3))
  ELSE <<>>

Exec(s) == ExecFrom(s, 1)

\* match.indices[1]?.[0] ?? match.indices[2]?.[0] ?? match.indices[3]?.[0]
\*   ?? pos.character
RangeStart(m, character) ==
  IF m.indices[1] # <<>> THEN m.indices[1][1]
  ELSE IF m.indices[2] # <<>> THEN m.indices[2][1]
  ELSE IF m.indices[3] # <<>> THEN m.indices[3][1]
  ELSE character

\* The range handed to suggest(), or <<>> when the provider returns [].
CompletionRange(text) ==
  IF Exec(text) = <<>> THEN <<>>
  ELSE << [start |-> RangeStart(Exec(text)[1], Len(text)),
           end |-> Len(text)] >>

\* What may stand before the cursor on the line.
Fragments == { "\\ref{", "\\import{", "[", "]", "(", ")", "}", "a" }

RECURSIVE Concat(_)
Concat(q) == IF q = <<>> THEN "" ELSE Head(q) \o Concat(Tail(q))

Prefixes == { Concat(q) : q \in SeqsUpTo(Fragments, MaxFrags) }


-----------------------------------------------------------------------------
(* The completion synthesizer (suggest, lines 16-36) *)

JUndefined == [kind |-> "undefined"]

\* entry.k: undefined when the object has no such property.
Prop(entry, k) ==
  IF k \in SeqRange(OwnKeys(entry)) THEN OwnGet(entry, k) ELSE JUndefined

\* ${v} in a template literal.
Template(v) ==
  CASE v.kind = "string" -> v.str
    [] v.kind = "null" -> "null"
    [] OTHER -> "undefined"

\* v ?? d
Coalesce(v, d) == IF v.kind \in {"null", "undefined"} THEN d ELSE v

\* title === null ? `[${id}]` : showID ? `[${id}] ${title}` : title
Label(id, title, showID) ==
  IF title = JNull
  THEN JString("[" \o Template(id) \o "]")
  ELSE IF showID
       THEN JString("[" \o Template(id) \o "] " \o Template(title))
       ELSE title

\* One CompletionItem, lines 21-33.
CompletionItem(entry, range, showID) ==
  LET id == Prop(entry, "uri")
      title == Prop(entry, "title")
      taxon == Prop(entry, "taxon")
  IN [ label |-> Label(id, title, showID),
       description |-> Coalesce(taxon, JString("")),
       range |-> range,
       insertText |-> id,
       filterText |-> Template(id) \o " "
                      \o Template(Coalesce(title, JString(""))) \o " "
                      \o Template(Coalesce(taxon, JString(""))),
       detail |-> Template(Coalesce(taxon, JString("Tree")))
                  \o " [" \o Template(id) \o "]",
       documentation |-> Coalesce(title, JUndefined) ]

\* The loop of suggest: one push per entry, in order.
RECURSIVE Suggest(_, _, _)
Suggest(trees, range, showID) ==
  IF trees = <<>> THEN <<>>
  ELSE <<CompletionItem(Head(trees), range, showID)>>
       \o Suggest(Tail(trees), range, showID)

\* An entry object from its optional parts (<<>> leaves the property out).
EntryObject(uri, title, taxon) ==
  LET ks == <<"uri">> \o (IF title = <<>> THEN <<>> ELSE <<"title">>)
                      \o (IF taxon = <<>> THEN <<>> ELSE <<"taxon">>)
  IN JObject(ks, [k \in SeqRange(ks) |->
                    CASE k = "uri" -> JString(uri)
                      [] k = "title" -> title[1]
                      [] OTHER -> taxon[1]])

SuggestEntries ==
  { EntryObject(u, ti, ta) :
      u \in {"abc", "t2"},
      ti \in {<<>>, <<JNull>>, <<JString("Hello")>>},
      ta \in {<<>>, <<JNull>>, <<JString("note")>>} }

SuggestRanges == { [start |-> 5, end |-> 7], [start |-> 2, end |-> 2] }

InitSuggest ==
  /\ QueryInit /\ norm = Off /\ mt = Off /\ cmd = Off
  /\ \E ts \in SeqsUpTo(SuggestEntries, MaxTrees), r \in SuggestRanges,
        b \in BOOLEAN :
       sg = [phase |-> "called", trees |-> ts, range |-> r, showID |-> b,
             items |-> <<>>]

SuggestCall ==
  /\ sg.phase = "called"
  /\ sg' = [sg EXCEPT !.phase = "returned",
                      !.items = Suggest(sg.trees, sg.range, sg.showID)]
  /\ UNCHANGED <<queryVars, norm, mt, cmd>>

NextSuggest == SuggestCall

SpecSuggest == InitSuggest /\ [][NextSuggest]_vars

HasTitle(entry) ==
  /\ "title" \in SeqRange(entry.keys)
  /\ entry.get["title"].kind = "string"

\* C6: one candidate per entry, in order, inserting the entry's uri over
\* the same range; the label is "[uri]" when the entry has no title (null
\* or absent), else "[uri] title" with showID and the title without.
C6_OneCandidatePerEntry ==
  sg.phase = "returned" =>
    /\ Len(sg.items) = Len(sg.trees)
    /\ \A i \in DOMAIN sg.items :
         LET e == sg.trees[i]
             it == sg.items[i]
         IN /\ it.insertText = e.get["uri"]
            /\ it.range = sg.range
            /\ it.label =
                 IF ~HasTitle(e)
                 THEN JString("[" \o e.get["uri"].str \o "]")
                 ELSE IF sg.showID
                 THEN JString("[" \o e.get["uri"].str \o "] "
                              \o e.get["title"].str)
                 ELSE e.get["title"]

-----------------------------------------------------------------------------
(* The completion provider as a whole (lines 76-104) *)

\* What getForest({ fastReturnStale: true }) may hand back.
GetForest ==
  { <<>>, << EntryObject("abc", <<JString("Hello")>>, <<>>) >> }

InitMatch ==
  /\ QueryInit /\ norm = Off /\ sg = Off /\ cmd = Off
  /\ \E t \in Prefixes :
       mt = [phase |-> "typed", text |-> t, range |-> <<>>, items |-> <<>>]

ProvideCompletionItems ==
  /\ mt.phase = "typed"
  /\ \E f \in GetForest, showID \in BOOLEAN :
       mt' = [mt EXCEPT
                !.phase = "provided",
                !.range = CompletionRange(mt.text),
                !.items = IF CompletionRange(mt.text) = <<>> THEN <<>>
                          ELSE Suggest(f, CompletionRange(mt.text)[1], showID)]
  /\ UNCHANGED <<queryVars, norm, sg, cmd>>

NextMatch == ProvideCompletionItems

SpecMatch == InitMatch /\ [][NextMatch]_vars

-----------------------------------------------------------------------------
(* Properties of the context matcher *)

Provided == mt.phase = "provided"

\* The offset just after an opening delimiter equals the position of the
\* delimiter's last character.

\* Offsets after the "{" of a command that no "}" follows.
Syntax1(s) ==
  { p \in 1..Len(s) :
      /\ \E k \in DOMAIN Commands :
           /\ p >= Len(Commands[k])
           /\ SubSeq(s, p - Len(Commands[k]) + 1, p) = Commands[k]
      /\ ~Contains(SubSeq(s, p + 1, Len(s)), "}") }

\* Where the link text of a "](" at p-1, p opens: the nearest "[" before.
LinkOpen(s, p) ==
  { i \in 1..(p - 2) :
      /\ Char(s, i) = "["
      /\ \A m \in (i + 1)..(p - 2) : Char(s, m) # "[" }

\* Offsets after the "(" of "[..](" that no ")" follows.
Syntax2(s) ==
  { p \in 3..Len(s) :
      /\ SubSeq(s, p - 1, p) = "]("
      /\ LinkOpen(s, p) # {}
      /\ ~Contains(SubSeq(s, p + 1, Len(s)), ")") }

\* Offsets after a "[[" that no "]" follows.
Syntax3(s) ==
  { p \in 2..Len(s) :
      /\ SubSeq(s, p - 1, p) = "[["
      /\ ~Contains(SubSeq(s, p + 1, Len(s)), "]") }

Openings(s) ==
  UNION {
    { <<p - Len(Commands[k]) + 1, p>> :
        k \in { k \in DOMAIN Commands :
                  /\ p >= Len(Commands[k])
                  /\ SubSeq(s, p - Len(Commands[k]) + 1, p) = Commands[k] } }
    : p \in Syntax1(s) }
  \cup UNION { { <<i, p>> : i \in LinkOpen(s, p) } : p \in Syntax2(s) }
  \cup { <<p - 1, p>> : p \in Syntax3(s) }

C5_RangeAfterDelimiter ==
  (Provided /\ mt.range # <<>>) =>
    LET s == mt.text
        st == mt.range[1].start
        en == mt.range[1].end
        partial == SubSeq(s, st + 1, en)
    IN /\ 0 <= st /\ st <= en /\ en = Len(s)
       /\ \/ /\ \E k \in DOMAIN Commands :
                  /\ st >= Len(Commands[k])
                  /\ SubSeq(s, st - Len(Commands[k]) + 1, st) = Commands[k]
             /\ ~Contains(partial, "}")
          \/ /\ st >= 3 /\ SubSeq(s, st - 1, st) = "]("
             /\ ~Contains(partial, ")")
          \/ /\ st >= 2 /\ SubSeq(s, st - 1, st) = "[["
             /\ ~Contains(partial, "]")
       /\ \A i \in DOMAIN mt.items : mt.items[i].range = mt.range[1]

\* C5 witness: a match with an empty partial text.
C5_Witness ==
  /\ Provided /\ mt.range # <<>>
  /\ mt.range[1].start = mt.range[1].end

-----------------------------------------------------------------------------
(* The command executor (command, lines 89-116) and forester.new *)

Whitespace == {" ", "\n", "\t"}

\* String.prototype.trim
RECURSIVE TrimStart(_)
TrimStart(t) ==
  IF t # "" /\ Char(t, 1) \in Whitespace THEN TrimStart(Tail(t)) ELSE t

RECURSIVE TrimEnd(_)
TrimEnd(t) ==
  IF t # "" /\ Char(t, Len(t)) \in Whitespace
  THEN TrimEnd(SubSeq(t, 1, Len(t) - 1))
  ELSE t

Trim(t) == TrimEnd(TrimStart(t))

\* How the execFile promise ends: resolved with the captured output, or
\* rejected for a non-zero exit or a failed spawn.
ExecOutcomes ==
  { [kind |-> "ok", stdout |-> o, stderr |-> e] :
      o \in {"", "\n", "trees/p-0001.tree\n", " a.tree"},
      e \in {"", "warning: x"} }
  \cup
  { [kind |-> "exit", code |-> c, stdout |-> o, stderr |-> e] :
      c \in {1, 2}, o \in {"", "trees/p-0001.tree\n"},
      e \in {"", "error: y"} }
  \cup
  { [kind |-> "spawn", stdout |-> "", stderr |-> ""] }

\* e.toString() of the rejection.
ExceptionText(out) ==
  IF out.kind = "exit"
  THEN "Error: Command failed: forester new\n" \o out.stderr
  ELSE "Error: spawn forester ENOENT"

\* The catch block's message, line 112.
CommandErrorMessage(out) ==
  ExceptionText(out)
    \o (IF out.stdout # "" THEN "\n\n" \o out.stdout ELSE "")
    \o (IF out.stderr # "" THEN "\n\n" \o out.stderr ELSE "")

\* What command() shows, lines 107-109 and 114.
CommandShown(out) ==
  IF out.kind = "ok"
  THEN IF out.stderr # "" THEN <<out.stderr>> ELSE <<>>
  ELSE <<CommandErrorMessage(out)>>

\* A catch block that hands back the partial stdout.
CommandResultPartial(out) == <<out.stdout>>

\* What command() resolves to: stdout, or undefined (<<>>) from the catch.
CommandResult(out) == IF out.kind = "ok" THEN <<out.stdout>> ELSE <<>>

\* (await command(...))?.trim()
TrimmedResult(r) == IF r = <<>> THEN <<>> ELSE <<Trim(r[1])>>

\* if (result) { showTextDocument(openTextDocument(result)) }
Opened(result) ==
  IF result # <<>> /\ result[1] # "" THEN <<result[1]>> ELSE <<>>

InitCommand ==
  /\ QueryInit /\ norm = Off /\ mt = Off /\ sg = Off
  /\ \E out \in ExecOutcomes, fo \in BOOLEAN, pr \in BOOLEAN,
        folders \in 0..1 :
       cmd = [phase |-> "invoked", folder |-> fo, prefix |-> pr,
              folders |-> folders, outcome |-> out, ran |-> FALSE,
              result |-> <<>>, shown |-> <<>>, opened |-> <<>>]

\* The forester.new handler, lines 115-153, command() included.
ForesterNew ==
  /\ cmd.phase = "invoked"
  /\ IF ~cmd.folder \/ ~cmd.prefix
     THEN cmd' = [cmd EXCEPT !.phase = "returned"]
     ELSE IF GetRootThrows(cmd.folders)
     THEN cmd' = [cmd EXCEPT !.phase = "thrown"]
     ELSE cmd' = [cmd EXCEPT
                    !.phase = "returned",
                    !.ran = TRUE,
                    !.result = TrimmedResult(CommandResult(cmd.outcome)),
                    !.shown = CommandShown(cmd.outcome),
                    !.opened = Opened(TrimmedResult(CommandResult(cmd.outcome)))]
  /\ UNCHANGED <<queryVars, norm, mt, sg>>

NextCommand == ForesterNew

SpecCommand == InitCommand /\ [][NextCommand]_vars

CommandFailed == cmd.ran /\ cmd.outcome.kind \in {"exit", "spawn"}

\* C8: when the process exits non-zero or cannot be spawned, command()
\* resolves to undefined without throwing, exactly one diagnostic (exception
\* text, then stdout and stderr if any) is shown and no document is opened;
\* a document is opened only after a success with non-blank stdout.
C8_CommandFailureOpensNothing ==
  /\ cmd.phase # "off" /\ CommandFailed =>
       /\ cmd.phase = "returned"
       /\ cmd.result = <<>>
       /\ Len(cmd.shown) = 1
       /\ StartsWith(cmd.shown[1], "Error: ")
       /\ cmd.outcome.stdout # "" => Contains(cmd.shown[1], cmd.outcome.stdout)
       /\ cmd.outcome.stderr # "" => Contains(cmd.shown[1], cmd.outcome.stderr)
       /\ cmd.opened = <<>>
  /\ cmd.phase # "off" /\ cmd.opened # <<>> =>
       /\ cmd.ran /\ cmd.outcome.kind = "ok"
       /\ \E c \in 1..Len(cmd.outcome.stdout) :
            Char(cmd.outcome.stdout, c) \notin Whitespace
       /\ Len(cmd.opened) = 1
       /\ Contains(cmd.outcome.stdout, cmd.opened[1])

\* C8 witness: a non-zero exit that left a path on stdout.
C8_Witness ==
  /\ cmd.phase = "returned" /\ CommandFailed
  /\ cmd.outcome.kind = "exit"
  /\ cmd.outcome.stdout = "trees/p-0001.tree\n"

====
